---- MODULE Spec2Model ----
(***************************************************************************)
(* Model of scripts/ingest_datasets.py: the two family loaders load_bbq    *)
(* and load_stereoset, gathered by main on ONE AsyncSession, the chunk     *)
(* loader insert_chunk, the two parsers, and the unique columns of        *)
(* data/schemas/datasets.py.                                               *)
(*                                                                         *)
(* Granularity: one action per stretch of code between two suspension      *)
(* points of the asyncio event loop.  Parsing, chunking and creating the   *)
(* chunk loads are synchronous; insert_chunk suspends inside               *)
(* begin_nested().__aenter__, inside the block's __aexit__ and inside      *)
(* session.commit().                                                       *)
(*                                                                         *)
(* Model of scripts/download_datasets.py: cli's loop of download_file      *)
(* calls and the context manager TempDownload, one action per file-system  *)
(* or network operation.  The downloader is a program of its own, with its *)
(* own specification DownloadSpec; its variables rest while the ingestion  *)
(* runs and the ingestion's variables rest while it runs.                  *)
(***************************************************************************)
EXTENDS Integers, Sequences, FiniteSets, TLC

\* ------------------------------------------------------------------ bounds
\* total number of lines / raw documents over all source files
MaxEntities == 3
\* example_id, document id and sentence_id values range over 1..NumIds
NumIds == 2
\* chunk_size of load_bbq / load_stereoset (1000 in the code), scaled down
ChunkSize == 2
\* number of files cli downloads (categories and stereoset files together)
NumDownloads == 2
\* the most chunks iter_content yields for one response
MaxChunks == 2

\* ------------------------------------------------------- program constants
Families == {"bbq", "stereoset"}

\* load_bbq's list of categories, cut to its first two
categories == <<"Age", "Disability_status">>

\* load_stereoset's list of (filename, entry_type)
files == <<"intersentence", "intrasentence">>

SourcesOf(f) == IF f = "bbq" THEN categories ELSE files

\* a source is a family and a position in that family's list
Src == {<<f, i>> : f \in Families, i \in 1..2}

\* range(3) in parse_bbq_file
NumAnswers == 3

VARIABLES dirs, fs, mainPc, famPc, famIdx, tasks, pending, txn, nest, db, log

\* the downloader: the --force flag, the content of each destination path,
\* the content of the .part file, the response body, the place in cli and
\* download_file, the file cli is at, and the Result of the call.  before
\* is a history variable: the content of the destination when the call began.
VARIABLES force, dest, part, body, dlPc, dlIdx, result, before

ingestVars ==
    <<dirs, fs, mainPc, famPc, famIdx, tasks, pending, txn, nest, db, log>>

dlVars == <<force, dest, part, body, dlPc, dlIdx, result, before>>

vars == <<ingestVars, dlVars>>

\* --------------------------------------------------------- file contents
\* The content of a path is a sequence of chunks; NoFile stands for a path
\* that does not exist (and for a response that has not arrived).
NoFile == <<-1>>
\* the content of a destination that was there before cli ran
Old == <<0>>
\* a response body that iter_content yields as n chunks
Body(n) == [i \in 1..n |-> i]

\* the downloader is not running
DownloadOff ==
    /\ force = FALSE
    /\ dest = [d \in 1..NumDownloads |-> NoFile]
    /\ part = NoFile
    /\ body = NoFile
    /\ dlPc = "off"
    /\ dlIdx = 1
    /\ result = "none"
    /\ before = NoFile

\* ------------------------------------------------------------- raw inputs
\* A line of a .jsonl file.  wf = FALSE is a line on which json.loads or
\* one of the subscripts of parse_bbq_file raises.
BadLine == [wf |-> FALSE, example_id |-> 0]
GoodLine(n) == [wf |-> TRUE, example_id |-> n]
Lines == {BadLine} \cup {GoodLine(n) : n \in 1..NumIds}

\* A raw document of a StereoSet file: id, and its sentences, each with an
\* id and a number of labels.  wf = FALSE is an object with a missing key.
BadDoc == [wf |-> FALSE, id |-> 0, sentences |-> <<>>]
GoodDoc(d, s) == [wf |-> TRUE, id |-> d,
                  sentences |-> <<[id |-> s, labels |-> 1]>>]
Docs == {BadDoc} \cup {GoodDoc(d, s) : d \in 1..NumIds, s \in 1..NumIds}

\* ----------------------------------------------------------------- parsers
\* An entity tree: the root with its children, as the relationships of
\* schemas/datasets.py hold them.  src and pos say where the tree was read.
BBQAnswer(i) == [tbl |-> "bbqanswer", key |-> i, children |-> <<>>]

BBQ(s, p, line) ==
    [tbl |-> "bbq", src |-> s, pos |-> p, key |-> line.example_id,
     children |-> [i \in 1..NumAnswers |-> BBQAnswer(i - 1)]]

StereoSetLabel(j) == [tbl |-> "stereosetlabel", key |-> j, children |-> <<>>]

StereoSetSentence(raw) ==
    [tbl |-> "stereosetsentence", key |-> raw.id,
     children |-> [j \in 1..raw.labels |-> StereoSetLabel(j)]]

StereoSet(s, p, d) ==
    [tbl |-> "stereoset", src |-> s, pos |-> p, key |-> d.id,
     children |-> [i \in 1..Len(d.sentences) |->
                       StereoSetSentence(d.sentences[i])]]

\* mutant of parse_bbq_file: a line that raises is skipped, the rest is kept
parse_bbq_file_skipping(s, lines) ==
    [ok |-> TRUE,
     entries |-> LET good == SelectSeq([p \in 1..Len(lines) |-> p],
                                       LAMBDA p : lines[p].wf)
                 IN [i \in 1..Len(good) |-> BBQ(s, good[i], lines[good[i]])]]

\* @safe: the first raising line makes the whole call a Failure
parse_bbq_file(s, lines) ==
    IF \E p \in 1..Len(lines) : ~lines[p].wf
    THEN [ok |-> FALSE, entries |-> <<>>]
    ELSE [ok |-> TRUE,
          entries |-> [p \in 1..Len(lines) |-> BBQ(s, p, lines[p])]]

\* A JSON value as json.load returns it: a dict (members: key -> value), a
\* list (items) or None; "invalid" is a file json.load raises on, such as a
\* file of zero bytes.
NoMembers == [k \in {} |-> 0]
None == [kind |-> "null", items |-> <<>>, members |-> NoMembers]
Invalid == [kind |-> "invalid", items |-> <<>>, members |-> NoMembers]
List(q) == [kind |-> "list", items |-> q, members |-> NoMembers]
Dict(m) == [kind |-> "dict", items |-> <<>>, members |-> m]

\* isinstance(v, dict)
IsDict(v) == v.kind = "dict"

\* v.get(k): None when the key is absent;  v.get(k, d)
Get(v, k) == IF k \in DOMAIN v.members THEN v.members[k] ELSE None
GetOr(v, k, d) == IF k \in DOMAIN v.members THEN v.members[k] ELSE d

\* truth value of a Python object: None, [] and {} are false
Truthy(v) ==
    \/ v.kind = "list" /\ v.items # <<>>
    \/ v.kind = "dict" /\ DOMAIN v.members # {}

\* a or b
Or(a, b) == IF Truthy(a) THEN a ELSE b

\* entry_type.capitalize()
Capitalize(k) ==
    IF k = "intersentence" THEN "Intersentence" ELSE "Intrasentence"

\* The layouts a file holding the raw documents docs comes in.
Shapes == {"data_lower", "data_upper", "data_both", "lower", "data_list",
           "list", "zero_bytes"}

\* the file's JSON value: the documents under data.<entry_type>, under
\* data.<Entry_type>, under data.<Entry_type> beside an empty
\* data.<entry_type>, under <entry_type> of an object without data key, as
\* the value of data, or as the top-level value
JsonOf(shape, docs, entry_type) ==
    IF shape = "data_lower"
      THEN Dict("data" :> Dict(entry_type :> List(docs)))
    ELSE IF shape = "data_upper"
      THEN Dict("data" :> Dict(Capitalize(entry_type) :> List(docs)))
    ELSE IF shape = "data_both"
      THEN Dict("data" :> Dict(entry_type :> List(<<>>)
                               @@ Capitalize(entry_type) :> List(docs)))
    ELSE IF shape = "lower" THEN Dict(entry_type :> List(docs))
    ELSE IF shape = "data_list" THEN Dict("data" :> List(docs))
    ELSE IF shape = "list" THEN List(docs)
    ELSE Invalid

\* raw_data = raw.get('data', raw) if isinstance(raw, dict) else raw
DataOf(raw) == IF IsDict(raw) THEN GetOr(raw, "data", raw) ELSE raw

\* raw_data.get(entry_type) or raw_data.get(entry_type.capitalize())
\*     or raw_data
SectionOf(raw_data, entry_type) ==
    Or(Get(raw_data, entry_type),
       Or(Get(raw_data, Capitalize(entry_type)), raw_data))

\* @safe: json.load raising, .get on a value that is not a dict
\* (AttributeError), a key of a dict taken for a document (TypeError) or a
\* raw object with a missing key make the whole call a Failure
parse_stereoset_file(s, raw, entry_type) ==
    IF raw.kind = "invalid" \/ ~IsDict(DataOf(raw))
    THEN [ok |-> FALSE, entries |-> <<>>]
    ELSE LET raw_data == SectionOf(DataOf(raw), entry_type)
             docs == raw_data.items
         IN IF IsDict(raw_data)
            THEN [ok |-> DOMAIN raw_data.members = {}, entries |-> <<>>]
            ELSE IF \E p \in 1..Len(docs) : ~docs[p].wf
            THEN [ok |-> FALSE, entries |-> <<>>]
            ELSE [ok |-> TRUE,
                  entries |-> [p \in 1..Len(docs) |->
                                  StereoSet(s, p, docs[p])]]

\* what json.load returns for the file of nested-document source s
Json(s) == JsonOf(fs[s].shape, fs[s].lines, files[s[2]])

Parse(s) == IF s[1] = "bbq" THEN parse_bbq_file(s, fs[s].lines)
            ELSE parse_stereoset_file(s, Json(s), files[s[2]])

\* ----------------------------------------------------------------- chunker
Min(a, b) == IF a < b THEN a ELSE b

\* mutant of RangeStep: a last start that leaves fewer than chunk_size
\* entries is not taken
RangeStepFullOnly(n, c) == n \div c

\* len(range(0, n, c)): the number of starts 0, c, 2c, ... below n
RangeStep(n, c) == (n + c - 1) \div c

\* [entries[i : i + c] for i in range(0, len(entries), c)]: the k-th start is
\* i = (k - 1) * c and the slice stops at the end of the list
ChunksOfSize(entries, c) ==
    [k \in 1..RangeStep(Len(entries), c) |->
        SubSeq(entries, (k - 1) * c + 1, Min(k * c, Len(entries)))]

\* chunk_size = 1000; chunks = [...]
NumChunks(entries) == RangeStep(Len(entries), ChunkSize)

Chunks(entries) == ChunksOfSize(entries, ChunkSize)

\* the chunk loads of source s are numbered by chunk
TaskIds(s) == {<<s, k>> : k \in 1..NumChunks(Parse(s).entries)}

ChunkOf(t) == Chunks(Parse(t[1]).entries)[t[2]]

Range(q) == {q[i] : i \in 1..Len(q)}

\* ------------------------------------------------------------ the database
\* The rows an entity tree becomes when the session flushes it: the root,
\* its children and their children (save-update cascade).
Row(e, path, node) ==
    [tbl |-> node.tbl, src |-> e.src, pos |-> e.pos, path |-> path,
     key |-> node.key]

RowsOf(e) ==
    {Row(e, <<>>, e)}
    \cup {Row(e, <<i>>, e.children[i]) : i \in 1..Len(e.children)}
    \cup UNION {{Row(e, <<i, j>>, e.children[i].children[j]) :
                    j \in 1..Len(e.children[i].children)} :
                i \in 1..Len(e.children)}

RowsOfAll(es) == UNION {RowsOf(e) : e \in es}

\* mutant of UniqueTables: sentence_id declared without unique=True
UniqueTablesNoSentence == {"bbq", "stereoset"}

\* BBQ.example_id unique, StereoSet.id primary key,
\* StereoSetSentence.sentence_id unique
UniqueTables == {"bbq", "stereoset", "stereosetsentence"}

Clash(r, q) == r # q /\ r.tbl = q.tbl /\ r.key = q.key /\ r.tbl \in UniqueTables

\* mutant of Violates: only rows already there are compared, not the rows of
\* the batch among themselves
ViolatesExistingOnly(rows, existing) ==
    \E r \in rows : \E q \in existing : Clash(r, q)

\* INSERTing rows into a connection that already sees the rows of existing
\* raises IntegrityError
Violates(rows, existing) ==
    \E r \in rows : \E q \in rows \cup existing : Clash(r, q)

\* mutant of Visible: the uncommitted rows of the session are not seen
VisibleCommittedOnly == db

\* what the session's connection sees: committed rows and its own
\* uncommitted ones
Visible == db \cup txn

\* -------------------------------------------------------------------- Init
Sum4(n) == n[<<"bbq", 1>>] + n[<<"bbq", 2>>]
           + n[<<"stereoset", 1>>] + n[<<"stereoset", 2>>]

\* Identifiers matter only by equality, so the inputs are taken up to a
\* renaming: in reading order, a new identifier is the least unused one.
IdAt(raw, which) ==
    IF ~raw.wf THEN 0
    ELSE IF "example_id" \in DOMAIN raw THEN raw.example_id
    ELSE IF which = 1 THEN raw.id
    ELSE raw.sentences[1].id

IdsOf(q, which) == [i \in 1..Len(q) |-> IdAt(q[i], which)]

Canonical(ids) ==
    \A i \in 1..Len(ids) :
        ids[i] > 1 => \E j \in 1..(i - 1) : ids[j] = ids[i] - 1

NoLog == [warn |-> FALSE, parseFail |-> FALSE, insertFail |-> 0, loaded |-> -1]

\* The state when main has opened the session and gathered the two loaders:
\* any directory tree under datasets/ (with at most one file that exists and
\* holds no line or document), the nested-document files in the layout
\* data.<entry_type>, an empty schema, an idle session.
Init ==
    /\ dirs \in [Families -> BOOLEAN]
    /\ \E ex \in [Src -> BOOLEAN], n \in [Src -> 0..MaxEntities] :
          /\ \A s \in Src : (~dirs[s[1]] => ~ex[s]) /\ (~ex[s] => n[s] = 0)
          /\ Sum4(n) <= MaxEntities
          /\ Cardinality({s \in Src : ex[s] /\ n[s] = 0}) <= 1
          /\ \E b1 \in [1..n[<<"bbq", 1>>] -> Lines],
                b2 \in [1..n[<<"bbq", 2>>] -> Lines],
                s1 \in [1..n[<<"stereoset", 1>>] -> Docs],
                s2 \in [1..n[<<"stereoset", 2>>] -> Docs] :
                /\ Canonical(IdsOf(b1 \o b2, 1))
                /\ Canonical(IdsOf(s1 \o s2, 1))
                /\ Canonical(IdsOf(s1 \o s2, 2))
                /\ fs = [s \in Src |->
                           [exists |-> ex[s],
                            shape |-> IF s[1] = "bbq" THEN "jsonl"
                                      ELSE "data_lower",
                            lines |-> IF s = <<"bbq", 1>> THEN b1
                                      ELSE IF s = <<"bbq", 2>> THEN b2
                                      ELSE IF s = <<"stereoset", 1>> THEN s1
                                      ELSE s2]]
    /\ mainPc = "gather"
    /\ famPc = [f \in Families |-> "start"]
    /\ famIdx = [f \in Families |-> 1]
    /\ tasks = <<>>
    /\ pending = {}
    /\ txn = {}
    /\ nest = <<>>
    /\ db = {}
    /\ log = [s \in Src |-> NoLog]
    /\ DownloadOff

\* --------------------------------------------------------------- the session
\* position of t's SAVEPOINT in the stack of open nested transactions, 0 when
\* it is no longer open
NestPos(t) ==
    IF \E i \in 1..Len(nest) : nest[i].owner = t
    THEN CHOOSE i \in 1..Len(nest) : nest[i].owner = t
    ELSE 0

\* a failed flush rolls back the innermost open transaction: the last
\* SAVEPOINT, or the whole outer transaction when none is open
RollbackTxn == IF nest = <<>> THEN {} ELSE nest[Len(nest)].snap
RollbackNest == IF nest = <<>> THEN <<>> ELSE SubSeq(nest, 1, Len(nest) - 1)

InProgress(t) == t \in DOMAIN tasks /\ tasks[t] \in {"nested", "exited"}

\* mutant of Finished: the gather of a source's chunk loads returns without
\* waiting for their results
FinishedNotAwaited(t) == t \in DOMAIN tasks

\* the chunk load has returned its result to the gather that awaits it
Finished(t) == t \in DOMAIN tasks /\ tasks[t] \in {"ok", "fail"}

\* -------------------------------------------------------------- event loop
\* asyncio runs one task at a time and switches only at a suspension point.
\* A loader is in synchronous code from its start, and from the moment its
\* gather has returned, until its next gather suspends or it returns:
\* nothing else runs meanwhile.  The gather of main starts load_bbq, then
\* load_stereoset, before any other task is scheduled.
Running(f) == famPc[f] = "loop"

CanRun(f) ==
    /\ \A g \in Families \ {f} : ~Running(g)
    /\ f = "stereoset" => famPc["bbq"] # "start"

LoopIdle == \A g \in Families : famPc[g] \notin {"start", "loop"}

\* ------------------------------------------------------------ insert_chunk
\* mutant of BeginNested: a chunk load that failed is started again
BeginNestedRetrying(t) ==
    /\ LoopIdle
    /\ t \in DOMAIN tasks /\ tasks[t] \in {"created", "fail"}
    /\ IF Violates(RowsOfAll(pending), Visible)
       THEN /\ txn' = RollbackTxn
            /\ nest' = RollbackNest
            /\ tasks' = [tasks EXCEPT ![t] = "fail"]
       ELSE /\ txn' = txn \cup RowsOfAll(pending)
            /\ nest' = Append(nest, [owner |-> t, snap |-> txn'])
            /\ tasks' = [tasks EXCEPT ![t] = "nested"]
    /\ pending' = {}
    /\ UNCHANGED <<dlVars, dirs, fs, mainPc, famPc, famIdx, db, log>>

\* async with session.begin_nested(): __aenter__ flushes what the session
\* holds pending and emits SAVEPOINT
BeginNested(t) ==
    /\ LoopIdle
    /\ t \in DOMAIN tasks /\ tasks[t] = "created"
    /\ IF Violates(RowsOfAll(pending), Visible)
       THEN /\ txn' = RollbackTxn
            /\ nest' = RollbackNest
            /\ tasks' = [tasks EXCEPT ![t] = "fail"]
       ELSE /\ txn' = txn \cup RowsOfAll(pending)
            /\ nest' = Append(nest, [owner |-> t, snap |-> txn'])
            /\ tasks' = [tasks EXCEPT ![t] = "nested"]
    /\ pending' = {}
    /\ UNCHANGED <<dlVars, dirs, fs, mainPc, famPc, famIdx, db, log>>

\* session.add_all(chunk), then the block's __aexit__: when the nested
\* transaction is still active it is committed (flush, RELEASE SAVEPOINT,
\* together with the nested transactions opened inside it) or, when the
\* flush raises, rolled back to its SAVEPOINT; when another call has closed
\* it meanwhile, __aexit__ does nothing and the chunk stays pending
AddAllExit(t) ==
    /\ LoopIdle
    /\ t \in DOMAIN tasks /\ tasks[t] = "nested"
    /\ LET added == pending \cup Range(ChunkOf(t))
           i == NestPos(t)
       IN IF i = 0
          THEN /\ pending' = added
               /\ tasks' = [tasks EXCEPT ![t] = "exited"]
               /\ UNCHANGED <<txn, nest>>
          ELSE /\ pending' = {}
               /\ nest' = SubSeq(nest, 1, i - 1)
               /\ IF Violates(RowsOfAll(added), Visible)
                  THEN /\ txn' = nest[i].snap
                       /\ tasks' = [tasks EXCEPT ![t] = "fail"]
                  ELSE /\ txn' = txn \cup RowsOfAll(added)
                       /\ tasks' = [tasks EXCEPT ![t] = "exited"]
    /\ UNCHANGED <<dlVars, dirs, fs, mainPc, famPc, famIdx, db, log>>

\* mutant of Commit: a failed commit rolls back the rows committed earlier too
CommitRollingBackCommitted(t) ==
    /\ LoopIdle
    /\ t \in DOMAIN tasks /\ tasks[t] = "exited"
    /\ IF Violates(RowsOfAll(pending), Visible)
       THEN /\ txn' = RollbackTxn
            /\ nest' = RollbackNest
            /\ tasks' = [tasks EXCEPT ![t] = "fail"]
            /\ db' = {}
       ELSE /\ db' = db \cup txn \cup RowsOfAll(pending)
            /\ txn' = {}
            /\ nest' = <<>>
            /\ tasks' = [tasks EXCEPT ![t] = "ok"]
    /\ pending' = {}
    /\ UNCHANGED <<dlVars, dirs, fs, mainPc, famPc, famIdx, log>>

\* await session.commit(): flushes what is pending and commits the outer
\* transaction with every nested transaction still open in it
Commit(t) ==
    /\ LoopIdle
    /\ t \in DOMAIN tasks /\ tasks[t] = "exited"
    /\ IF Violates(RowsOfAll(pending), Visible)
       THEN /\ txn' = RollbackTxn
            /\ nest' = RollbackNest
            /\ tasks' = [tasks EXCEPT ![t] = "fail"]
            /\ UNCHANGED db
       ELSE /\ db' = db \cup txn \cup RowsOfAll(pending)
            /\ txn' = {}
            /\ nest' = <<>>
            /\ tasks' = [tasks EXCEPT ![t] = "ok"]
    /\ pending' = {}
    /\ UNCHANGED <<dlVars, dirs, fs, mainPc, famPc, famIdx, log>>

\* The session is not safe for concurrent tasks: a call made while another
\* chunk load is between its SAVEPOINT and its commit may instead raise
\* (illegal state change, operation in progress); @future_safe turns it
\* into a Failure.  At the end of the block the chunk has been added and
\* __aexit__ rolls the nested transaction back.
ConcurrentUseError(t) ==
    /\ LoopIdle
    /\ t \in DOMAIN tasks
    /\ \E u \in DOMAIN tasks : u # t /\ InProgress(u)
    /\ \/ /\ tasks[t] \in {"created", "exited"}
          /\ UNCHANGED <<pending, txn, nest>>
       \/ /\ tasks[t] = "nested"
          /\ NestPos(t) # 0
          /\ pending' = {}
          /\ txn' = nest[NestPos(t)].snap
          /\ nest' = SubSeq(nest, 1, NestPos(t) - 1)
    /\ tasks' = [tasks EXCEPT ![t] = "fail"]
    /\ UNCHANGED <<dlVars, dirs, fs, mainPc, famPc, famIdx, db, log>>

\* ------------------------------------------------ load_bbq, load_stereoset
CurSrc(f) == <<f, famIdx[f]>>

InLoop(f) == famPc[f] = "loop" /\ famIdx[f] <= Len(SourcesOf(f))

\* mutant of DirMissing: the loader also raises when its first file is absent
DirOrFirstFileMissing(f) == ~dirs[f] \/ ~fs[<<f, 1>>].exists

\* if not bbq_dir.exists(): raise FileNotFoundError
DirMissing(f) == ~dirs[f]

FamilyStart(f) ==
    /\ CanRun(f)
    /\ famPc[f] = "start"
    /\ famPc' = [famPc EXCEPT ![f] = IF DirMissing(f) THEN "raised" ELSE "loop"]
    /\ UNCHANGED <<dlVars, dirs, fs, mainPc, famIdx, tasks, pending, txn, nest, db, log>>

\* mutant of FileMissing: the directory is tested in place of the file
FileMissingTestsDir(s) == ~dirs[s[1]]

\* if not file_path.exists(): logger.warning(...); continue
FileMissing(s) == ~fs[s].exists

SkipMissing(f) ==
    /\ CanRun(f)
    /\ InLoop(f)
    /\ FileMissing(CurSrc(f))
    /\ log' = [log EXCEPT ![CurSrc(f)].warn = TRUE]
    /\ famIdx' = [famIdx EXCEPT ![f] = @ + 1]
    /\ UNCHANGED <<dlVars, dirs, fs, mainPc, famPc, tasks, pending, txn, nest, db>>

\* if isinstance(parse_result, Failure): logger.exception(...); continue
ParseFailed(f) ==
    /\ CanRun(f)
    /\ InLoop(f)
    /\ ~FileMissing(CurSrc(f))
    /\ ~Parse(CurSrc(f)).ok
    /\ log' = [log EXCEPT ![CurSrc(f)].parseFail = TRUE]
    /\ famIdx' = [famIdx EXCEPT ![f] = @ + 1]
    /\ UNCHANGED <<dlVars, dirs, fs, mainPc, famPc, tasks, pending, txn, nest, db>>

\* failures = [r for r in results if isinstance(r, Failure)]
Failures(s) == {t \in TaskIds(s) : t \in DOMAIN tasks /\ tasks[t] = "fail"}

\* if failures: log each one; else: logger.info(f'Loaded {len(entries)} ...')
Logged(s) ==
    IF Failures(s) # {}
    THEN [log[s] EXCEPT !.insertFail = Cardinality(Failures(s))]
    ELSE [log[s] EXCEPT !.loaded = Len(Parse(s).entries)]

\* chunks = [...]; insert_futures = [insert_chunk(session, chunk) ...];
\* await asyncio.gather(...): one task per chunk, all started together.
\* The gather of no chunk is done at once: the loader does not suspend.
Submit(f) ==
    /\ CanRun(f)
    /\ InLoop(f)
    /\ ~FileMissing(CurSrc(f))
    /\ Parse(CurSrc(f)).ok
    /\ IF TaskIds(CurSrc(f)) = {}
       THEN /\ log' = [log EXCEPT ![CurSrc(f)] = Logged(CurSrc(f))]
            /\ famIdx' = [famIdx EXCEPT ![f] = @ + 1]
            /\ UNCHANGED <<tasks, famPc>>
       ELSE /\ tasks' = [t \in DOMAIN tasks \cup TaskIds(CurSrc(f)) |->
                           IF t \in DOMAIN tasks THEN tasks[t] ELSE "created"]
            /\ famPc' = [famPc EXCEPT ![f] = "await"]
            /\ UNCHANGED <<famIdx, log>>
    /\ UNCHANGED <<dlVars, dirs, fs, mainPc, pending, txn, nest, db>>

\* the gather has every result: the loader resumes after it
Collect(f) ==
    /\ CanRun(f)
    /\ famPc[f] = "await"
    /\ \A t \in TaskIds(CurSrc(f)) : Finished(t)
    /\ log' = [log EXCEPT ![CurSrc(f)] = Logged(CurSrc(f))]
    /\ famIdx' = [famIdx EXCEPT ![f] = @ + 1]
    /\ famPc' = [famPc EXCEPT ![f] = "loop"]
    /\ UNCHANGED <<dlVars, dirs, fs, mainPc, tasks, pending, txn, nest, db>>

\* the for loop is exhausted: the loader returns
FamilyReturn(f) ==
    /\ CanRun(f)
    /\ famPc[f] = "loop"
    /\ famIdx[f] > Len(SourcesOf(f))
    /\ famPc' = [famPc EXCEPT ![f] = "done"]
    /\ UNCHANGED <<dlVars, dirs, fs, mainPc, famIdx, tasks, pending, txn, nest, db, log>>

\* -------------------------------------------------------------------- main
\* both loaders returned: the gather returns, the session block is left
\* (close() rolls back what is not committed)
MainReturn ==
    /\ LoopIdle
    /\ mainPc = "gather"
    /\ \A f \in Families : famPc[f] = "done"
    /\ mainPc' = "done"
    /\ pending' = {} /\ txn' = {} /\ nest' = <<>>
    /\ UNCHANGED <<dlVars, dirs, fs, famPc, famIdx, tasks, db, log>>

\* gather without return_exceptions: the first loader that raises makes the
\* gather raise in main at once; the other loader is left running while the
\* exception leaves the session block, which closes the session
MainExcept ==
    /\ LoopIdle
    /\ mainPc = "gather"
    /\ \E f \in Families : famPc[f] = "raised"
    /\ mainPc' = "closing"
    /\ pending' = {} /\ txn' = {} /\ nest' = <<>>
    /\ UNCHANGED <<dlVars, dirs, fs, famPc, famIdx, tasks, db, log>>

\* the exception leaves main: asyncio.run cancels every task still running
\* and re-raises
Teardown ==
    /\ LoopIdle
    /\ mainPc = "closing"
    /\ mainPc' = "error"
    /\ famPc' = [f \in Families |->
                    IF famPc[f] \in {"done", "raised"} THEN famPc[f]
                    ELSE "cancelled"]
    /\ tasks' = [t \in DOMAIN tasks |->
                    IF tasks[t] \in {"ok", "fail"} THEN tasks[t]
                    ELSE "cancelled"]
    /\ UNCHANGED <<dlVars, dirs, fs, famIdx, pending, txn, nest, db, log>>

Next ==
    \/ \E f \in Families : FamilyStart(f)
    \/ \E f \in Families : SkipMissing(f)
    \/ \E f \in Families : ParseFailed(f)
    \/ \E f \in Families : Submit(f)
    \/ \E f \in Families : Collect(f)
    \/ \E f \in Families : FamilyReturn(f)
    \/ \E t \in DOMAIN tasks : BeginNested(t)
    \/ \E t \in DOMAIN tasks : AddAllExit(t)
    \/ \E t \in DOMAIN tasks : Commit(t)
    \/ \E t \in DOMAIN tasks : ConcurrentUseError(t)
    \/ MainReturn
    \/ MainExcept
    \/ Teardown

Spec == Init /\ [][Next]_vars

\* The runs in which the layout of a nested-document file varies: the first
\* nested-document file in any layout with the raw documents of at most one
\* chunk, beside at most one flat-category file of one line.
InitParser ==
    /\ dirs \in [Families -> BOOLEAN]
    /\ \E shape \in Shapes, n \in 0..ChunkSize, b \in BOOLEAN :
          /\ ~dirs["stereoset"] => (shape = "data_lower" /\ n = 0)
          /\ ~dirs["bbq"] => ~b
          /\ shape = "zero_bytes" => n = 0
          /\ \E docs \in [1..n -> Docs] :
                /\ Canonical(IdsOf(docs, 1))
                /\ Canonical(IdsOf(docs, 2))
                /\ fs = [s \in Src |->
                           IF s = <<"stereoset", 1>>
                           THEN [exists |-> dirs["stereoset"],
                                 shape |-> shape, lines |-> docs]
                           ELSE IF s = <<"bbq", 1>>
                           THEN [exists |-> b, shape |-> "jsonl",
                                 lines |-> IF b THEN <<GoodLine(1)>>
                                           ELSE <<>>]
                           ELSE [exists |-> FALSE,
                                 shape |-> IF s[1] = "bbq" THEN "jsonl"
                                           ELSE "data_lower",
                                 lines |-> <<>>]]
    /\ mainPc = "gather"
    /\ famPc = [f \in Families |-> "start"]
    /\ famIdx = [f \in Families |-> 1]
    /\ tasks = <<>>
    /\ pending = {}
    /\ txn = {}
    /\ nest = <<>>
    /\ db = {}
    /\ log = [s \in Src |-> NoLog]
    /\ DownloadOff

ParserSpec == InitParser /\ [][Next]_vars

TypeOK ==
    /\ mainPc \in {"gather", "closing", "done", "error"}
    /\ \A f \in Families :
          famPc[f] \in {"start", "loop", "await", "raised", "done", "cancelled"}
    /\ \A t \in DOMAIN tasks :
          tasks[t] \in {"created", "nested", "exited", "ok", "fail", "cancelled"}

\* =============================================================== download
\* Return of download_file with Result r
Return(r) ==
    /\ result' = r
    /\ dlPc' = "returned"

\* download_file, `if dest_path.exists() and not force`: nothing is fetched
AlreadyExists ==
    /\ dlPc = "call"
    /\ dest[dlIdx] # NoFile /\ ~force
    /\ Return("Success")
    /\ UNCHANGED <<ingestVars, force, dest, part, body, dlIdx, before>>

\* download_file, `if force and dest_path.exists(): dest_path.unlink(...)`,
\* and on to _download
RemoveExisting ==
    /\ dlPc = "call"
    /\ ~(dest[dlIdx] # NoFile /\ ~force)
    /\ dest' = IF force /\ dest[dlIdx] # NoFile
               THEN [dest EXCEPT ![dlIdx] = NoFile]
               ELSE dest
    /\ dlPc' = "get"
    /\ UNCHANGED <<ingestVars, force, part, body, dlIdx, result, before>>

\* _download: requests.get answers, raise_for_status passes and the
\* content-length is read; the body will come as n chunks
RequestsGet ==
    /\ dlPc = "get"
    /\ \E n \in 0..MaxChunks : body' = Body(n)
    /\ dlPc' = "enter"
    /\ UNCHANGED <<ingestVars, force, dest, part, dlIdx, result, before>>

\* _download: requests.get, raise_for_status or int(...) raises; @safe
\* returns the Failure
RequestsGetRaises ==
    /\ dlPc = "get"
    /\ Return("Failure")
    /\ UNCHANGED <<ingestVars, force, dest, part, body, dlIdx, before>>

\* TempDownload.__enter__: NamedTemporaryFile creates the empty .part file
\* next to the destination
TempDownloadEnter ==
    /\ dlPc = "enter"
    /\ part' = <<>>
    /\ dlPc' = "write"
    /\ UNCHANGED <<ingestVars, force, dest, body, dlIdx, result, before>>

\* TempDownload.__enter__: NamedTemporaryFile raises, no file is created
TempDownloadEnterRaises ==
    /\ dlPc = "enter"
    /\ Return("Failure")
    /\ UNCHANGED <<ingestVars, force, dest, part, body, dlIdx, before>>

\* _download: one turn of `for chunk in r.iter_content(...)`
WriteChunk ==
    /\ dlPc = "write"
    /\ Len(part) < Len(body)
    /\ part' = Append(part, body[Len(part) + 1])
    /\ UNCHANGED <<ingestVars, force, dest, body, dlPc, dlIdx, result, before>>

\* TempDownload.__exit__ with exc_type None, at the end of the body: the
\* .part file is closed and renamed onto the destination
TempDownloadExitReplace ==
    /\ dlPc = "write"
    /\ Len(part) = Len(body)
    /\ dest' = [dest EXCEPT ![dlIdx] = part]
    /\ part' = NoFile
    /\ Return("Success")
    /\ UNCHANGED <<ingestVars, force, body, dlIdx, before>>

\* TempDownload.__exit__ with exc_type None, tmp_path.replace raises: the
\* exception leaves __exit__ before anything removes the .part file
TempDownloadExitReplaceRaises ==
    /\ dlPc = "write"
    /\ Len(part) = Len(body)
    /\ Return("Failure")
    /\ UNCHANGED <<ingestVars, force, dest, part, body, dlIdx, before>>

\* iter_content or tmp_file.write raises; TempDownload.__exit__ with that
\* exception closes and unlinks the .part file
TempDownloadExitUnlink ==
    /\ dlPc = "write"
    /\ part' = NoFile
    /\ Return("Failure")
    /\ UNCHANGED <<ingestVars, force, dest, body, dlIdx, before>>

\* cli: the call returned a Success and the loops have another file; the
\* next call of download_file begins
CliNext ==
    /\ dlPc = "returned" /\ result = "Success"
    /\ dlIdx < NumDownloads
    /\ dlIdx' = dlIdx + 1
    /\ before' = dest[dlIdx + 1]
    /\ body' = NoFile
    /\ result' = "none"
    /\ dlPc' = "call"
    /\ UNCHANGED <<ingestVars, force, dest, part>>

\* cli: the call returned a Success and it was the last file
CliDone ==
    /\ dlPc = "returned" /\ result = "Success"
    /\ dlIdx = NumDownloads
    /\ dlPc' = "done"
    /\ UNCHANGED <<ingestVars, force, dest, part, body, dlIdx, result, before>>

\* cli: `if isinstance(result, Failure): raise click.Abort(...)`
CliAbort ==
    /\ dlPc = "returned" /\ result = "Failure"
    /\ dlPc' = "aborted"
    /\ UNCHANGED <<ingestVars, force, dest, part, body, dlIdx, result, before>>

NextDownload ==
    \/ AlreadyExists
    \/ RemoveExisting
    \/ RequestsGet
    \/ RequestsGetRaises
    \/ TempDownloadEnter
    \/ TempDownloadEnterRaises
    \/ WriteChunk
    \/ TempDownloadExitReplace
    \/ TempDownloadExitReplaceRaises
    \/ TempDownloadExitUnlink
    \/ CliNext
    \/ CliDone
    \/ CliAbort

\* the ingestion is not running
IngestOff ==
    /\ dirs = [f \in Families |-> FALSE]
    /\ fs = [s \in Src |->
               [exists |-> FALSE,
                shape |-> IF s[1] = "bbq" THEN "jsonl" ELSE "data_lower",
                lines |-> <<>>]]
    /\ mainPc = "gather"
    /\ famPc = [f \in Families |-> "start"]
    /\ famIdx = [f \in Families |-> 1]
    /\ tasks = <<>>
    /\ pending = {}
    /\ txn = {}
    /\ nest = <<>>
    /\ db = {}
    /\ log = [s \in Src |-> NoLog]

\* cli is about to call download_file on its first file; each destination
\* is there from an earlier run or not, and --force is given or not
InitDownload ==
    /\ IngestOff
    /\ force \in BOOLEAN
    /\ dest \in [1..NumDownloads -> {NoFile, Old}]
    /\ part = NoFile
    /\ body = NoFile
    /\ dlPc = "call"
    /\ dlIdx = 1
    /\ result = "none"
    /\ before = dest[1]

DownloadSpec == InitDownload /\ [][NextDownload]_vars

DownloadTypeOK ==
    /\ dlPc \in {"off", "call", "get", "enter", "write", "returned", "done",
                  "aborted"}
    /\ result \in {"none", "Success", "Failure"}
    /\ dlIdx \in 1..NumDownloads

\* ============================================================== properties
\* the parsed entity trees of a source, none when it is absent or unparseable
EntitiesOf(s) ==
    IF fs[s].exists /\ Parse(s).ok THEN Range(Parse(s).entries) ELSE {}

AllEntities == UNION {EntitiesOf(s) : s \in Src}

Persisted(e) == RowsOf(e) \subseteq db

NotPersisted(e) == RowsOf(e) \cap db = {}

\* no entity of source s is pending, flushed or persisted
NoRowsFrom(s) ==
    /\ \A e \in pending : e.src # s
    /\ \A r \in txn : r.src # s
    /\ \A r \in db : r.src # s

Submitted(s) == \E t \in DOMAIN tasks : t[1] = s

\* the loader has collected the results of s's chunk loads
Collected(s) == log[s].insertFail > 0 \/ log[s].loaded >= 0

\* both family directories are there, so main never raises
NoFatal == \A f \in Families : dirs[f]

FailedTasks == {t \in DOMAIN tasks : tasks[t] = "fail"}

\* chunk k of source s breaks a uniqueness constraint by itself
SelfViolating(s, k) ==
    Violates(RowsOfAll(Range(Chunks(Parse(s).entries)[k])), {})

\* no row of chunk j of source s clashes with a row of another tree
CleanChunk(s, j) ==
    \A e \in Range(Chunks(Parse(s).entries)[j]) :
        \A d \in AllEntities \ {e} :
            ~Violates(RowsOf(e), RowsOf(d)) /\ ~Violates(RowsOf(e), {})

\* chunk k is the one chunk of s built to violate uniqueness
OneBadChunk(s, k) ==
    /\ fs[s].exists /\ Parse(s).ok
    /\ NumChunks(Parse(s).entries) >= 2
    /\ k \in 1..NumChunks(Parse(s).entries)
    /\ SelfViolating(s, k)
    /\ \A j \in 1..NumChunks(Parse(s).entries) \ {k} : CleanChunk(s, j)

\* C1 (as claimed): when exactly one chunk k of a source split into several
\* chunks violates uniqueness, then once the source's load has completed
\* every entity of its other chunks is persisted and exactly one chunk
\* failure is reported for the source.
C1_FailureIsolation ==
    \A s \in Src : \A k \in 1..MaxEntities :
        (NoFatal /\ OneBadChunk(s, k) /\ Collected(s)) =>
            /\ log[s].insertFail = 1
            /\ \A j \in 1..NumChunks(Parse(s).entries) \ {k} :
                  \A e \in Range(Chunks(Parse(s).entries)[j]) : Persisted(e)

\* C2 (as claimed): a chunk load that returned success has all its entity
\* trees persisted with their children, one that returned a failure has
\* none of its entities persisted, and no chunk is ever partly persisted.
C2_ChunkAtomicity ==
    \A t \in DOMAIN tasks :
        NoFatal =>
        /\ tasks[t] = "ok" => \A e \in Range(ChunkOf(t)) : Persisted(e)
        /\ tasks[t] = "fail" => \A e \in Range(ChunkOf(t)) : NotPersisted(e)
        /\ \/ \A e \in Range(ChunkOf(t)) : Persisted(e)
           \/ \A e \in Range(ChunkOf(t)) : NotPersisted(e)

AllRows == RowsOfAll(AllEntities)

\* the rows of the chunk of load t that are under a uniqueness constraint of
\* the claim: Entries (example_id) and Sentences (sentence_id)
KeyedRows(t) ==
    {r \in RowsOfAll(Range(ChunkOf(t))) : r.tbl \in {"bbq", "stereosetsentence"}}

\* r1 and r2 are two Entries with one example_id, or two Sentences with one
\* sentence_id, and nothing else in the corpus breaks a uniqueness constraint
Twins(r1, r2) ==
    /\ r1 # r2
    /\ r1.tbl = r2.tbl /\ r1.key = r2.key
    /\ LET rows == AllRows
       IN \A a \in rows : \A b \in rows : Clash(a, b) => {a, b} = {r1, r2}

\* the chunk loads of a run that has ended without error: all have returned
Returned == IF mainPc = "done" THEN {t \in DOMAIN tasks : Finished(t)} ELSE {}

C4_UniqueIds ==
    \A r \in db : \A q \in db :
        (r # q /\ r.tbl = q.tbl /\ r.tbl \in {"bbq", "stereosetsentence"})
            => r.key # q.key

\* C4 witness: a Sentence is persisted and the load of a chunk holding
\* another Sentence with the same sentence_id has failed.
C4_Witness ==
    \E t \in FailedTasks : \E q \in KeyedRows(t) : \E r \in db :
        /\ r.tbl = "stereosetsentence" /\ q.tbl = r.tbl /\ q.key = r.key
        /\ q # r

\* the example_id of line p of source s
LineId(s, p) == fs[s].lines[p].example_id

\* s is the only source file with content, a flat-category file of at most
\* one chunk, well formed, in which exactly one example_id occurs twice
OneDuplicateFile(s) ==
    /\ s[1] = "bbq"
    /\ fs[s].exists /\ Parse(s).ok
    /\ \A o \in Src \ {s} : fs[o].lines = <<>>
    /\ Len(fs[s].lines) <= ChunkSize
    /\ \E i \in 1..Len(fs[s].lines) : \E j \in (i + 1)..Len(fs[s].lines) :
          /\ LineId(s, i) = LineId(s, j)
          /\ \A a \in 1..Len(fs[s].lines) : \A b \in (a + 1)..Len(fs[s].lines) :
                <<a, b>> # <<i, j>> => LineId(s, a) # LineId(s, b)

EntriesPersisted(s) == {r \in db : r.src = s /\ r.tbl = "bbq"}

AnswersPersisted(s, p) ==
    {r \in db : r.src = s /\ r.pos = p /\ r.tbl = "bbqanswer"}

\* C5 (as claimed): such a file of N lines ends with N-1 Entries persisted,
\* each with 3 Answers, and exactly one load failure reported.
C5_AllButOnePersisted ==
    \A s \in Src :
        (Collected(s) /\ OneDuplicateFile(s)) =>
            /\ Cardinality(EntriesPersisted(s)) = Len(fs[s].lines) - 1
            /\ \A r \in EntriesPersisted(s) :
                  Cardinality(AnswersPersisted(s, r.pos)) = 3
            /\ log[s].insertFail = 1

\* C5 (amended): such a file is one chunk, which is rolled back as a whole:
\* no Entry and no Answer of it is persisted, and exactly one load failure
\* is reported.
C5_WholeChunkRejected ==
    \A s \in Src :
        (Collected(s) /\ OneDuplicateFile(s)) =>
            /\ {r \in db : r.src = s} = {}
            /\ log[s].insertFail = 1
            /\ log[s].loaded = -1

\* C5 witness: the loader has collected the result of such a file.
C5_Witness ==
    \E s \in Src : mainPc = "done" /\ Collected(s) /\ OneDuplicateFile(s)

\* the file of s is there and one of its lines / raw objects does not parse
Unparseable(s) ==
    fs[s].exists /\ \E p \in 1..Len(fs[s].lines) : ~fs[s].lines[p].wf

\* the loader of s's family has gone past s
Passed(s) == famPc[s[1]] \notin {"start", "raised"} /\ famIdx[s[1]] > s[2]

\* C6: when a line of a flat-category file, or a raw object of a
\* nested-document file, fails to parse, at whatever position, the parser
\* returns a failure for the whole file, no chunk load is submitted for the
\* source, no entity of it is ever flushed or persisted, and the loader logs
\* the failure and goes on to the next source.
C6_NoPartialLoad ==
    \A s \in Src :
        Unparseable(s) =>
            /\ ~Parse(s).ok
            /\ ~Submitted(s)
            /\ NoRowsFrom(s)
            /\ log[s].insertFail = 0 /\ log[s].loaded = -1 /\ ~log[s].warn
            /\ log[s].parseFail <=> Passed(s)

\* C6 witness: a file whose second and last line is the bad one, after a
\* good first line, has been skipped and the next source of the family has
\* been submitted.
C6_Witness ==
    \E f \in Families :
        /\ Unparseable(<<f, 1>>)
        /\ Len(fs[<<f, 1>>].lines) = 2
        /\ fs[<<f, 1>>].lines[1].wf
        /\ log[<<f, 1>>].parseFail
        /\ Submitted(<<f, 2>>)

\* the family directory of s is there and the file of s is not
Absent(s) == dirs[s[1]] /\ ~fs[s].exists

\* C7: a source whose file is absent, in a family whose directory exists, is
\* skipped with a warning only: nothing is parsed or submitted for it, no
\* entity of it is persisted, no failure is recorded, and the loader goes on
\* to the remaining sources of the family.
C7_MissingFileSkipped ==
    \A s \in Src :
        Absent(s) =>
            /\ ~Submitted(s)
            /\ NoRowsFrom(s)
            /\ ~log[s].parseFail /\ log[s].insertFail = 0 /\ log[s].loaded = -1
            /\ log[s].warn <=> Passed(s)

\* C7 witness: the first file of a family is absent, the warning is logged
\* and the entities of the family's second source are persisted.
C7_Witness ==
    \E f \in Families :
        /\ Absent(<<f, 1>>)
        /\ log[<<f, 1>>].warn
        /\ log[<<f, 2>>].loaded = 1
        /\ \E r \in db : r.src = <<f, 2>>

\* C8 (as claimed): when one family's directory is absent and the other's is
\* present, then at the end of the run the absent family has loaded nothing
\* and every present, parseable source of the other family has been chunked
\* and has had all of its chunk loads run to completion.
C8_FatalForOneFamilyOnly ==
    \A f \in Families : \A g \in Families :
        (~dirs[f] /\ dirs[g] /\ mainPc \in {"done", "error"}) =>
            /\ \A s \in Src : s[1] = f => (~Submitted(s) /\ NoRowsFrom(s))
            /\ \A s \in Src :
                  (s[1] = g /\ fs[s].exists /\ Parse(s).ok) =>
                      \A t \in TaskIds(s) : Finished(t)

\* C9: the run ends in error exactly when a family directory is missing;
\* missing files, parse failures and failed chunk loads never make it end
\* in error, and never make a loader raise.
C9_ErrorIffFatal ==
    /\ mainPc \in {"closing", "error"} => ~NoFatal
    /\ mainPc = "done" => NoFatal
    /\ \A f \in Families : famPc[f] = "raised" <=> (~dirs[f] /\ famPc[f] # "start")

\* C9 witness: a run with a missing file, a parse failure and a failed chunk
\* load has ended without error.
C9_Witness ==
    /\ mainPc = "done"
    /\ \E s \in Src : log[s].warn
    /\ \E s \in Src : log[s].parseFail
    /\ \E s \in Src : log[s].insertFail > 0

\* C10 (as claimed): at no time are two chunk loads in progress on the same
\* session, between entering the sub-transaction and finishing the commit.
C10_SingleWriter ==
    NoFatal => Cardinality({t \in DOMAIN tasks : InProgress(t)}) <= 1

\* ------------------------------------------------------------------- C11
\* chunk sizes the chunker is tried with
ChunkSizes == 1..(MaxEntities + 1)

RECURSIVE Concat(_)
\* the concatenation, in order, of a sequence of sequences
Concat(qs) ==
    IF qs = <<>> THEN <<>>
    ELSE Concat(SubSeq(qs, 1, Len(qs) - 1)) \o qs[Len(qs)]

\* ceil(n / c), computed by counting up
CeilDiv(n, c) == CHOOSE m \in 0..n : m * c >= n /\ (m = 0 \/ (m - 1) * c < n)

\* the parsed sequences the loaders hand to the chunker
\* the loader is waiting for the chunk loads of s or has gone past s
Reached(s) == Passed(s) \/ (famPc[s[1]] = "await" /\ famIdx[s[1]] = s[2])

Chunked(s) == Reached(s) /\ fs[s].exists /\ Parse(s).ok

\* none of the chunk loads of s has begun
NoneBegun(s) == \A t \in DOMAIN tasks : t[1] = s => tasks[t] = "created"

\* s has been chunked and none of its chunk loads has begun.  Every chunked
\* source goes through such a state, and no step changes a file, so what
\* the chunker returns for s is examined there.
JustChunked(s) == Chunked(s) /\ NoneBegun(s)

\* C11: for the parsed sequence of N entity trees of every source that has
\* been chunked, and every chunk size C >= 1, the chunker yields exactly
\* ceil(N/C) chunks (none when N = 0), all non-empty, each of length at most
\* C and all but the last of length exactly C, whose concatenation in order
\* is the parsed sequence; and the loader has created one chunk load per
\* chunk of its own chunk size.  What the chunker returns depends on the
\* file alone, so it is examined before the chunk loads of the source begin;
\* the chunk loads are counted in every later state too.
C11_ChunkingLossless ==
    \A s \in Src :
        LET parsed == Parse(s)
            entries == parsed.entries
        IN  (Reached(s) /\ fs[s].exists /\ parsed.ok) =>
               /\ NoneBegun(s) =>
                     \A c \in ChunkSizes :
                        LET ch == ChunksOfSize(entries, c)
                        IN /\ Len(ch) = CeilDiv(Len(entries), c)
                           /\ \A k \in 1..Len(ch) :
                                 /\ Len(ch[k]) >= 1 /\ Len(ch[k]) <= c
                                 /\ k < Len(ch) => Len(ch[k]) = c
                           /\ Concat(ch) = entries
               /\ {t \in DOMAIN tasks : t[1] = s} =
                     {<<s, k>> : k \in 1..CeilDiv(Len(entries), ChunkSize)}

\* C11 witness: a source of three entity trees has been chunked into a full
\* chunk and a shorter last one, and another source, an empty file, into
\* no chunk at all.
C11_Witness ==
    /\ \E s \in Src :
          /\ JustChunked(s) /\ Len(Parse(s).entries) = ChunkSize + 1
          /\ <<s, 2>> \in DOMAIN tasks
          /\ Len(ChunkOf(<<s, 2>>)) = 1
    /\ \E s \in Src :
          JustChunked(s) /\ Parse(s).entries = <<>> /\ ~Submitted(s)

\* ------------------------------------------------------------------- C12
\* s is a flat-category file of well-formed lines whose example_ids occur
\* once in the whole corpus
ValidFlatFile(s) ==
    /\ s[1] = "bbq"
    /\ fs[s].exists /\ Parse(s).ok
    /\ \A e \in Range(Parse(s).entries) :
          \A d \in AllEntities \ {e} : ~Violates(RowsOf(e), RowsOf(d))

\* the persisted Answers of the Entry at line p of s are exactly those
\* indexed 0, 1, 2
ThreeAnswers(s, p) ==
    /\ Cardinality(AnswersPersisted(s, p)) = 3
    /\ {r.key : r \in AnswersPersisted(s, p)} = {0, 1, 2}

\* C12 (as claimed): once the loader has gone past a valid flat-category
\* file of N lines, exactly N Entries of it are persisted, each with exactly
\* 3 Answers indexed 0, 1, 2, and no failure is reported for it; for an
\* empty file, zero Entries and no failure.
C12_ValidFlatFileLoaded ==
    \A s \in Src :
        (NoFatal /\ Passed(s) /\ ValidFlatFile(s)) =>
            /\ Cardinality(EntriesPersisted(s)) = Len(fs[s].lines)
            /\ \A p \in 1..Len(fs[s].lines) : ThreeAnswers(s, p)
            /\ log[s].insertFail = 0 /\ ~log[s].parseFail

\* ------------------------------------------------------------------- C13
\* s is a nested-document file that parses and whose document and sentence
\* ids occur once in the whole corpus
ValidNestedFile(s) ==
    /\ s[1] = "stereoset"
    /\ fs[s].exists /\ Parse(s).ok
    /\ \A e \in Range(Parse(s).entries) :
          /\ ~Violates(RowsOf(e), {})
          /\ \A d \in AllEntities \ {e} : ~Violates(RowsOf(e), RowsOf(d))

RECURSIVE SumSentences(_)
\* the sum of the lengths of the sentences arrays of raw documents
SumSentences(docs) ==
    IF docs = <<>> THEN 0
    ELSE Len(docs[1].sentences) + SumSentences(Tail(docs))

\* the persisted rows of table tbl that come from source s
PersistedOf(s, tbl) == {r \in db : r.src = s /\ r.tbl = tbl}

\* the persisted Labels of sentence i of the document at position p of s
LabelsPersisted(s, p, i) ==
    {r \in db : /\ r.src = s /\ r.pos = p /\ r.tbl = "stereosetlabel"
                /\ r.path[1] = i}

\* C13 (as claimed): once the loader has gone past a valid nested-document
\* file, one Document per raw object of its section is persisted, the
\* number of persisted Sentences is the sum of the lengths of the sentences
\* arrays, and every Sentence has as many Labels as its labels array has
\* elements.
C13_ValidNestedFileLoaded ==
    \A s \in Src :
        (NoFatal /\ Passed(s) /\ ValidNestedFile(s)) =>
            LET docs == SectionOf(DataOf(Json(s)), files[s[2]]).items
            IN /\ Cardinality(PersistedOf(s, "stereoset")) = Len(docs)
               /\ Cardinality(PersistedOf(s, "stereosetsentence"))
                     = SumSentences(docs)
               /\ \A p \in 1..Len(docs) :
                     \A i \in 1..Len(docs[p].sentences) :
                        Cardinality(LabelsPersisted(s, p, i))
                            = docs[p].sentences[i].labels

\* ------------------------------------------------------------------- C14
\* the chunk loads of source s that returned success
Succeeded(s) == {t \in DOMAIN tasks : t[1] = s /\ tasks[t] = "ok"}

\* the number of entities in the chunks of s whose load succeeded
LoadedCount(s) == Cardinality(UNION {Range(ChunkOf(t)) : t \in Succeeded(s)})

\* C14 (as claimed): when the loader has collected the chunk loads of a
\* source and at least one of them failed, it has logged each failed chunk
\* and has reported, as the source's loaded count, the number of entities
\* of the chunks that succeeded.
C14_LoadedCountReported ==
    \A s \in Src :
        (NoFatal /\ Passed(s) /\ Failures(s) # {}) =>
            /\ log[s].insertFail = Cardinality(Failures(s))
            /\ log[s].loaded = LoadedCount(s)

\* ------------------------------------------------------------------- C15
\* how far a chunk load has come: not started, inside the block, block
\* left, returned
Stage(pc) ==
    IF pc = "created" THEN 0
    ELSE IF pc = "nested" THEN 1
    ELSE IF pc = "exited" THEN 2
    ELSE 3

\* a step in which every chunk load keeps to its one attempt
OneAttemptStep ==
    /\ \A t \in DOMAIN tasks :
          /\ t \in DOMAIN tasks'
          /\ Stage(tasks'[t]) >= Stage(tasks[t])
          /\ Stage(tasks[t]) = 3 => tasks'[t] = tasks[t]
          /\ (tasks[t] # "fail" /\ tasks'[t] = "fail") =>
                 (famPc' = famPc /\ famIdx' = famIdx /\ mainPc' = mainPc)
    /\ \A u \in DOMAIN tasks' \ DOMAIN tasks : tasks'[u] = "created"

\* C15: each chunk gets exactly one load attempt per run: a chunk load, once
\* created, is never dropped or created again, it only moves forward through
\* insert_chunk and, once it has returned (success or failure), is never
\* started again; a chunk load that fails returns its failure as a value,
\* which leaves its loader and main where they are and never makes a loader
\* raise; and when the run ends without error every chunk of every source
\* that parsed has had its one attempt.
C15_OneAttemptPerChunk ==
    /\ [][OneAttemptStep]_vars
    /\ [](\A f \in Families : famPc[f] = "raised" => ~dirs[f])
    /\ [](mainPc = "done" =>
             \A s \in Src : (fs[s].exists /\ Parse(s).ok) =>
                 \A t \in TaskIds(s) : Finished(t))

\* C15 witness: a chunk load has failed, its loader has gone on to the next
\* source of the family, whose chunk load has succeeded, and the run has
\* ended without error.
C15_Witness ==
    /\ mainPc = "done"
    /\ \E t \in DOMAIN tasks : \E u \in DOMAIN tasks :
          /\ tasks[t] = "fail" /\ tasks[u] = "ok"
          /\ u[1][1] = t[1][1] /\ u[1][2] > t[1][2]

\* ------------------------------------------------------------------- C16
\* the run is over: main has returned or asyncio.run has re-raised
RunEnded == mainPc \in {"done", "error"}

\* every chunk of source s has been submitted and its load has returned
AllChunksCompleted(s) ==
    \A k \in 1..NumChunks(Parse(s).entries) :
        <<s, k>> \in DOMAIN tasks /\ tasks[<<s, k>>] \in {"ok", "fail"}

\* C16 (as claimed): in a family whose root directory exists, every source
\* whose file exists and parses has, by the end of the run, had all of its
\* chunks submitted and completed, whatever files are missing, fail to
\* parse or fail to load in the family.
C16_ProgressPastFailures ==
    RunEnded =>
        \A s \in Src :
            (dirs[s[1]] /\ fs[s].exists /\ Parse(s).ok) =>
                AllChunksCompleted(s)

\* ------------------------------------------------------------------- C17
\* C17 (as claimed): by the end of every run, also of one in which the other
\* family has hit its fatal precondition, every chunk load that was
\* submitted has returned success or failure; none is unfinished or
\* cancelled.
C17_NoCancellation ==
    RunEnded =>
        \A t \in DOMAIN tasks :
            tasks[t] # "cancelled" /\ Stage(tasks[t]) = 3

\* ------------------------------------------------------------------- C18
\* the chunk load t has been submitted and has not returned
Unreturned(t) == t \in DOMAIN tasks /\ Stage(tasks[t]) < 3

DocumentsOf(s, docs) == [p \in 1..Len(docs) |-> StereoSet(s, p, docs[p])]

\* the array the claim selects: under the lowercase key when it is present,
\* otherwise under the capitalized key when it is present, otherwise the
\* whole data section
ClaimedSection(raw, entry_type) ==
    LET section == DataOf(raw)
    IN IF entry_type \in DOMAIN section.members
       THEN section.members[entry_type]
       ELSE IF Capitalize(entry_type) \in DOMAIN section.members
       THEN section.members[Capitalize(entry_type)]
       ELSE section

\* the well-formed raw documents of an array
WellFormedList(v) ==
    v.kind = "list" /\ \A p \in 1..Len(v.items) : v.items[p].wf

\* C19 (as claimed): when the loader has gone past a nested-document file
\* whose claimed array holds well-formed raw documents, the file has parsed
\* without failure into one Document per element of that array; in
\* particular into zero Documents when the lowercase key holds an empty
\* array.
C19_SectionSelection ==
    \A s \in Src :
        (/\ NoFatal /\ s[1] = "stereoset" /\ fs[s].exists /\ Passed(s)
         /\ Json(s).kind = "dict"
         /\ WellFormedList(ClaimedSection(Json(s), files[s[2]])))
        => /\ Parse(s).ok
           /\ Parse(s).entries =
                 DocumentsOf(s, ClaimedSection(Json(s), files[s[2]]).items)
           /\ ~log[s].parseFail

\* ------------------------------------------------------------------- C20
\* C20 (as claimed): when the loader has gone past a nested-document file
\* whose top-level JSON value is the array of well-formed document objects
\* itself, the file has parsed without failure into one Document per array
\* element.
C20_TopLevelArray ==
    \A s \in Src :
        (/\ NoFatal /\ s[1] = "stereoset" /\ fs[s].exists /\ Passed(s)
         /\ WellFormedList(Json(s)))
        => /\ Parse(s).ok
           /\ Parse(s).entries = DocumentsOf(s, Json(s).items)
           /\ ~log[s].parseFail

\* ------------------------------------------------------------------- C21
\* C21: ingestion is append-only.  Every row that is committed before a step
\* is committed after it, as the same record (a row is an immutable record
\* of its table and column values, so a row that stays in the database is
\* unchanged): no chunk load, rollback or failure removes or alters it.
C21_AppendOnly == [][db \subseteq db']_vars

\* a chunk of one source has been committed in full, a chunk load of a later
\* source of the same family has failed and been rolled back after that, and
\* the committed rows are still there
C21_Witness ==
    \E t1, t2 \in DOMAIN tasks :
        /\ t1[1][1] = t2[1][1] /\ t1[1][2] < t2[1][2]
        /\ tasks[t1] = "ok" /\ tasks[t2] = "fail"
        /\ RowsOfAll(Range(ChunkOf(t1))) # {}
        /\ RowsOfAll(Range(ChunkOf(t1))) \subseteq db

\* ------------------------------------------------------------------- C22
\* the call of download_file that is running or has just returned
InCall ==
    dlPc \in {"call", "get", "enter", "write", "returned", "aborted", "done"}

\* C22 (as claimed): during and after a call of download_file, with or
\* without force, the destination never holds a partially written file (it
\* is absent, as it was before the call, or the whole response body); a
\* destination that was there before the call is there until the whole new
\* content replaces it; and when the call has returned a Failure the .part
\* file is gone and the destination is as it was before the call.
C22_AtomicReplaceAndCleanup ==
    InCall =>
        /\ dest[dlIdx] \in {NoFile, before, body}
        /\ before # NoFile => dest[dlIdx] # NoFile
        /\ result = "Failure" => part = NoFile /\ dest[dlIdx] = before

====
